---------------------------- MODULE Spec2Model ----------------------------
(***************************************************************************)
(* A model of wordlebot (src/main.go): the word codec (ParseWord, String), *)
(* the pattern engine (ComputePattern), the constraint filter (Filter),    *)
(* the candidate universe (Contains, CondenseUniverse) and the loop of     *)
(* SimulateGame.                                                           *)
(*                                                                         *)
(* Representation.  A Go string is the sequence of its bytes (numbers      *)
(* 0..255).  A uint32 used as a bit set is the set of the positions of its *)
(* one bits, a subset of 0..31: x | y is x \cup y, x & y is x \cap y, ^x   *)
(* is (0..31) \ x, x == 0 is x = {} and 1 << c is {c} when c < 32 and {}   *)
(* otherwise (Go drops the bits shifted out of the 32).  A WordleWord is a *)
(* sequence of WordLen such sets.                                          *)
(***************************************************************************)
EXTENDS Integers, Sequences, FiniteSets, TLC

VARIABLES
    words,             \* SimulateGame: the dictionary, a sequence of WordleWord
    target,            \* SimulateGame: the target word
    universe,          \* SimulateGame: the local variable universe
    numPossibilities,  \* SimulateGame: the local variable numPossibilities
    pc,                \* SimulateGame: "read" (at the top of the loop), "handle"
                       \* (a line was read), "eof" (return), "fatal"
                       \* (log.Fatalln), "break" (fewer than 2 remain)
    line,              \* SimulateGame: the line ReadString returned
    out,               \* SimulateGame: what the iteration printed last
    pureMask,          \* the mask kept by Filter alone, never condensed
    input,             \* codec runs: the string handed to ParseWord
    parsed,            \* codec runs: what ParseWord returned
    shown,             \* codec runs: what String returned for the parsed word
    patternOut,        \* pattern runs: what ComputePattern returned
    maskIn,            \* filter runs: the receiver w of Filter
    patternIn,         \* filter runs: the argument pattern of Filter
    filterOut,         \* filter runs: what Filter returned
    bits,              \* BitSet: the field bits, a sequence of uint64 bit sets
    size,              \* BitSet: the field size
    ret                \* BitSet: the last method called and what it returned

vars ==
    <<words, target, universe, numPossibilities, pc, line, out, pureMask,
      input, parsed, shown, patternOut, maskIn, patternIn, filterOut,
      bits, size, ret>>

codecVars == <<input, parsed, shown, patternOut>>

filterVars == <<maskIn, patternIn, filterOut>>

bitSetVars == <<bits, size, ret>>

---------------------------------------------------------------------------
(* Bytes and strings *)

\* The byte of each character the model's strings are written with.
Ord ==
    ("A" :> 65) @@ ("B" :> 66) @@ ("C" :> 67) @@ ("D" :> 68) @@ ("Z" :> 90) @@
    ("a" :> 97) @@ ("b" :> 98) @@ ("c" :> 99) @@ ("d" :> 100) @@ ("p" :> 112) @@
    ("z" :> 122) @@ ("1" :> 49) @@ ("@" :> 64) @@ ("[" :> 91) @@ ("^" :> 94) @@
    ("{" :> 123) @@ (" " :> 32) @@ ("LF" :> 10)

\* The Go string written as the tuple of its characters.
Str(t) == [i \in 1..Len(t) |-> Ord[t[i]]]

WordLen == 5

UInt32 == 0..31

\* const allBits = 0x3ffffff: the low 26 bits.
allBits == 0..25

Min(S) == CHOOSE x \in S : \A y \in S : x <= y

\* strings.ToUpper on ASCII bytes: 'a'..'z' map to 'A'..'Z', the rest stay.
ToUpper(s) == [i \in 1..Len(s) |-> IF s[i] \in 97..122 THEN s[i] - 32 ELSE s[i]]

\* unicode.IsSpace on ASCII bytes: '\t', '\n', '\v', '\f', '\r', ' '.
IsSpace(b) == b \in {9, 10, 11, 12, 13, 32}

RECURSIVE TrimLeft(_)
TrimLeft(s) ==
    IF s # <<>> /\ IsSpace(Head(s)) THEN TrimLeft(Tail(s)) ELSE s

RECURSIVE TrimRight(_)
TrimRight(s) ==
    IF s # <<>> /\ IsSpace(s[Len(s)]) THEN TrimRight(SubSeq(s, 1, Len(s) - 1)) ELSE s

\* strings.TrimSpace
TrimSpace(s) == TrimRight(TrimLeft(s))

---------------------------------------------------------------------------
(* WordCodec: ParseWord and WordleWord.String *)

zeroWord == [i \in 1..WordLen |-> {}]

\* 1 << c for a byte c, as a uint32.
Shl1(c) == IF c < 32 THEN {c} ELSE {}

\* c := s[i] - 'A', in byte arithmetic (wraps below 'A').
LetterIndex(b) == (b - 65) % 256

\* if c > 'Z' { return w, ErrWordChar }
BadChar(c) == c > 90

ParseWord(s) ==
    IF Len(s) # WordLen
    THEN [w |-> zeroWord, err |-> "ErrWordLen"]
    ELSE LET u == ToUpper(s)
             bad == {i \in 1..WordLen : BadChar(LetterIndex(u[i]))}
         IN  IF bad # {}
             THEN \* the positions before the first bad one are already set
                  [w |-> [i \in 1..WordLen |->
                             IF i < Min(bad) THEN Shl1(LetterIndex(u[i])) ELSE {}],
                   err |-> "ErrWordChar"]
             ELSE [w |-> [i \in 1..WordLen |-> Shl1(LetterIndex(u[i]))],
                   err |-> "nil"]

\* bits.TrailingZeros32: 32 for 0.
TrailingZeros32(v) == IF v = {} THEN 32 ELSE Min(v)

\* String with 'a' for 'A'.
StringLowerCase(w) == [i \in 1..WordLen |-> (TrailingZeros32(w[i]) + 97) % 256]

\* WordleWord.String: byte(TrailingZeros32(v)) + 'A' at each position.
String(w) == [i \in 1..WordLen |-> (TrailingZeros32(w[i]) + 65) % 256]

---------------------------------------------------------------------------
(* WordleWord operations *)

\* Or with the index of the fourth position repeated for the fifth.
OrRepeatsIndex(w, other) ==
    [i \in 1..WordLen |-> IF i = 5 THEN w[4] \cup other[4] ELSE w[i] \cup other[i]]

Or(w, other) == [i \in 1..WordLen |-> w[i] \cup other[i]]

And(w, other) == [i \in 1..WordLen |-> w[i] \cap other[i]]

Match(w, other) == And(w, other) = other

CharSet(w) == w[1] \cup w[2] \cup w[3] \cup w[4] \cup w[5]

---------------------------------------------------------------------------
(* PatternEngine: ComputePattern *)

PatternKindB == "B"
PatternKindY == "Y"
PatternKindG == "G"

\* PatternKindOf with the membership test ahead of the equality test.
PatternKindMembershipFirst(c, v, fullset) ==
    IF (c \cap fullset) # {} THEN PatternKindY
    ELSE IF c = v THEN PatternKindG
    ELSE PatternKindB

\* The kind of one position: c the guessed letter, v the target's letter there.
PatternKindOf(c, v, fullset) ==
    IF c = v THEN PatternKindG
    ELSE IF (c \cap fullset) # {} THEN PatternKindY
    ELSE PatternKindB

\* ComputePattern with fullset gathered from all positions but the last.
ComputePatternShortSet(w, other) ==
    LET fullset == UNION {w[i] : i \in 1..(WordLen - 1)}
    IN  [i \in 1..WordLen |->
            [v |-> other[i], kind |-> PatternKindOf(other[i], w[i], fullset)]]

\* w.ComputePattern(other): w is the target, other the guess.
ComputePattern(w, other) ==
    LET fullset == UNION {w[i] : i \in 1..WordLen}
    IN  [i \in 1..WordLen |->
            [v |-> other[i], kind |-> PatternKindOf(other[i], w[i], fullset)]]

---------------------------------------------------------------------------
(* ConstraintFilter: Filter *)

\* FilterB with Or for And.
FilterBOrs(w, i, v) == Or(w, [j \in 1..WordLen |-> UInt32 \ v])

\* case PatternKindB: w = w.And(WordleWord{mask, ...}) with mask = ^v.v
FilterB(w, i, v) == And(w, [j \in 1..WordLen |-> UInt32 \ v])

\* FilterY with ^= for &= ^: the letter is flipped at the position.
FilterYToggles(w, i, v) == [w EXCEPT ![i] = (w[i] \ v) \cup (v \ w[i])]

\* FilterY clearing the letter at every position, as the case PatternKindB.
FilterYEverywhere(w, i, v) == And(w, [j \in 1..WordLen |-> UInt32 \ v])

\* FilterY with |= for &=.
FilterYSets(w, i, v) == [w EXCEPT ![i] = w[i] \cup (UInt32 \ v)]

\* case PatternKindY: w[i] &= ^v.v
FilterY(w, i, v) == [w EXCEPT ![i] = w[i] \cap (UInt32 \ v)]

\* FilterG with the assignment of the case PatternKindY.
FilterGClears(w, i, v) == [w EXCEPT ![i] = w[i] \cap (UInt32 \ v)]

\* FilterG with |= for =.
FilterGAdds(w, i, v) == [w EXCEPT ![i] = w[i] \cup v]

\* case PatternKindG: w[i] = v.v
FilterG(w, i, v) == [w EXCEPT ![i] = v]

FilterEntry(w, i, e) ==
    IF e.kind = PatternKindB THEN FilterB(w, i, e.v)
    ELSE IF e.kind = PatternKindY THEN FilterY(w, i, e.v)
    ELSE FilterG(w, i, e.v)

\* for i, v := range pattern { ... }: the entries applied in order from i on.
RECURSIVE FilterFrom(_, _, _)
FilterFrom(w, pattern, i) ==
    IF i > WordLen THEN w
    ELSE FilterFrom(FilterEntry(w, i, pattern[i]), pattern, i + 1)

Filter(w, pattern) == FilterFrom(w, pattern, 1)

---------------------------------------------------------------------------
(* CandidateUniverse: Contains and CondenseUniverse *)

\* Contains asking for some required letter, not for all of them.
ContainsSomeRequired(u, v) ==
    LET vc == CharSet(v)
    IN  /\ Match(u.bitMask, v)
        /\ (u.solutionChars = {} \/ (vc \cap u.solutionChars) # {})
        /\ (vc \cap u.eliminatedChars) = {}

Contains(u, v) ==
    LET vc == CharSet(v)
    IN  /\ Match(u.bitMask, v)
        /\ (vc \cap u.solutionChars) = u.solutionChars
        /\ (vc \cap u.eliminatedChars) = {}

\* The fold without its case PatternKindB.
RECURSIVE FoldCharsForgetsAbsent(_, _, _)
FoldCharsForgetsAbsent(u, pattern, i) ==
    IF i > WordLen THEN u
    ELSE LET e == pattern[i]
         IN  FoldCharsForgetsAbsent(
                 IF e.kind = PatternKindB
                 THEN u
                 ELSE [u EXCEPT !.solutionChars = @ \cup e.v],
                 pattern, i + 1)

\* The fold with the two cases exchanged.
RECURSIVE FoldCharsSwapped(_, _, _)
FoldCharsSwapped(u, pattern, i) ==
    IF i > WordLen THEN u
    ELSE LET e == pattern[i]
         IN  FoldCharsSwapped(
                 IF e.kind = PatternKindB
                 THEN [u EXCEPT !.solutionChars = @ \cup e.v]
                 ELSE [u EXCEPT !.eliminatedChars = @ \cup e.v],
                 pattern, i + 1)

\* for _, v := range pattern { switch v.kind { ... } }: the two letter sets.
RECURSIVE FoldChars(_, _, _)
FoldChars(u, pattern, i) ==
    IF i > WordLen THEN u
    ELSE LET e == pattern[i]
         IN  FoldChars(
                 IF e.kind = PatternKindB
                 THEN [u EXCEPT !.eliminatedChars = @ \cup e.v]
                 ELSE [u EXCEPT !.solutionChars = @ \cup e.v],
                 pattern, i + 1)

\* The rescan with count++ outside the if.
RECURSIVE RescanCountsAll(_, _, _, _, _)
RescanCountsAll(u, ws, k, condensed, count) ==
    IF k > Len(ws) THEN [condensed |-> condensed, count |-> count]
    ELSE IF Contains(u, ws[k])
         THEN RescanCountsAll(u, ws, k + 1, Or(condensed, ws[k]), count + 1)
         ELSE RescanCountsAll(u, ws, k + 1, condensed, count + 1)

\* for _, v := range words { if universe.Contains(v) { condensed = ...; count++ } }
RECURSIVE Rescan(_, _, _, _, _)
Rescan(u, ws, k, condensed, count) ==
    IF k > Len(ws) THEN [condensed |-> condensed, count |-> count]
    ELSE IF Contains(u, ws[k])
         THEN Rescan(u, ws, k + 1, Or(condensed, ws[k]), count + 1)
         ELSE Rescan(u, ws, k + 1, condensed, count)

\* The universe with the letter sets folded in and the mask left as it was.
NarrowedUnfiltered(guess, tgt, u) ==
    FoldChars(u, ComputePattern(tgt, guess), 1)

\* The universe after universe.bitMask = universe.bitMask.Filter(pattern),
\* the one the rescan tests the words against.
Narrowed(guess, tgt, u) ==
    LET pattern == ComputePattern(tgt, guess)
        u1 == FoldChars(u, pattern, 1)
    IN  [u1 EXCEPT !.bitMask = Filter(u1.bitMask, pattern)]

CondenseUniverse(guess, tgt, u, ws) ==
    LET u2 == Narrowed(guess, tgt, u)
        r == Rescan(u2, ws, 1, zeroWord, 0)
    IN  [universe |-> [u2 EXCEPT !.bitMask = r.condensed], count |-> r.count]

---------------------------------------------------------------------------
(* Inputs *)

\* The letters the generated guesses are made of.
GuessLetters == {Ord["A"], Ord["B"], Ord["C"]}

\* Every 5-letter guess over GuessLetters.
GuessWords == [1..WordLen -> GuessLetters]

\* Lines that are no plain upper-case guess: the listing command, wrong
\* lengths, characters outside the letters, lower case, padding.
OtherWords == {
    Str(<<"p">>),
    Str(<<>>),
    Str(<<"A", "B", "C", "A">>),
    Str(<<"A", "B", "C", "A", "B", "C">>),
    Str(<<"A", "B", "1", "C", "A">>),
    Str(<<"A", "B", "@", "C", "A">>),
    Str(<<"A", "B", "[", "C", "A">>),
    Str(<<"a", "b", "{", "c", "a">>),
    Str(<<"a", "b", "c", "a", "b">>),
    Str(<<" ", "a", "b", "b", "c", "a">>),
    Str(<<"A", "D", "D", "D", "A">>) }

\* The word lists the dictionary is loaded from (wordlist.json): none, one
\* word, words over the same letters, words with a fourth letter.  The
\* entries of a list are distinct words.
WordLists == {
    <<>>,
    <<Str(<<"a", "b", "a", "c", "a">>)>>,
    <<Str(<<"a", "b", "a", "c", "a">>),
      Str(<<"a", "c", "a", "b", "a">>),
      Str(<<"a", "a", "b", "c", "a">>),
      Str(<<"a", "b", "a", "a", "c">>),
      Str(<<"b", "a", "a", "c", "a">>),
      Str(<<"A", "B", "C", "A", "B">>),
      Str(<<"b", "a", "c", "a", "b">>),
      Str(<<"a", "b", "b", "c", "a">>),
      Str(<<"a", "a", "a", "a", "a">>),
      Str(<<"c", "b", "a", "a", "a">>)>>,
    <<Str(<<"a", "a", "a", "a", "a">>),
      Str(<<"a", "b", "c", "d", "a">>),
      Str(<<"a", "d", "c", "b", "a">>),
      Str(<<"b", "b", "a", "b", "b">>),
      Str(<<"a", "b", "c", "a", "b">>),
      Str(<<"d", "b", "c", "a", "b">>),
      Str(<<"a", "b", "d", "a", "b">>),
      Str(<<"b", "b", "d", "a", "b">>)>>,
    <<Str(<<"b", "c", "b", "c", "b">>),
      Str(<<"c", "a", "a", "c", "d">>),
      Str(<<"d", "a", "d", "a", "d">>),
      Str(<<"c", "a", "b", "c", "d">>),
      Str(<<"c", "a", "a", "b", "d">>)>> }

\* The -target flag values.
TargetStrings == {
    Str(<<"a", "b", "a", "c", "a">>),
    Str(<<"A", "B", "C", "A", "B">>),
    Str(<<"a", "a", "a", "a", "a">>),
    Str(<<"a", "b", "c", "d", "a">>),
    Str(<<"c", "a", "a", "c", "d">>),
    Str(<<"c", "c", "b", "a", "a">>),
    Str(<<"a", "b", "b", "a", "b">>) }

\* reader.ReadString('\n') without an error: the line with its delimiter.
Lines == {w \o Str(<<"LF">>) : w \in GuessWords \cup OtherWords \cup TargetStrings}

---------------------------------------------------------------------------
(* SimulateGame *)

initialUniverse ==
    [bitMask |-> [i \in 1..WordLen |-> allBits],
     solutionChars |-> {},
     eliminatedChars |-> {}]

NoLine == <<>>

\* No string was handed to ParseWord.
NotParsed == [w |-> zeroWord, err |-> "pending"]

NotShown == <<>>

NoPattern == <<>>

CodecIdle ==
    /\ input = <<>>
    /\ parsed = NotParsed
    /\ shown = NotShown
    /\ patternOut = NoPattern

NotFiltered == <<>>

\* No mask was handed to Filter.
FilterIdle ==
    /\ maskIn = zeroWord
    /\ patternIn = NoPattern
    /\ filterOut = NotFiltered

\* No BitSet was made.
NoCall == [op |-> "none", i |-> 0, b |-> FALSE, value |-> FALSE]

BitSetIdle ==
    /\ bits = <<>>
    /\ size = 0
    /\ ret = NoCall

\* main up to the call of SimulateGame, and SimulateGame up to its loop.
Init ==
    /\ \E list \in WordLists :
          /\ \A k \in 1..Len(list) : ParseWord(list[k]).err = "nil"
          /\ words = [k \in 1..Len(list) |-> ParseWord(list[k]).w]
    /\ \E t \in TargetStrings :
          /\ ParseWord(t).err = "nil"
          /\ target = ParseWord(t).w
    /\ universe = initialUniverse
    /\ numPossibilities = Len(words)
    /\ pc = "read"
    /\ line = NoLine
    /\ out = "start"
    /\ pureMask = initialUniverse.bitMask
    /\ CodecIdle
    /\ FilterIdle
    /\ BitSetIdle

\* fmt.Print("Guess: ") and reader.ReadString('\n') returning a line.
ReadLine(raw) ==
    /\ pc = "read"
    /\ pc' = "handle"
    /\ line' = raw
    /\ out' = "Guess: "
    /\ UNCHANGED <<words, target, universe, numPossibilities, pureMask>>
    /\ UNCHANGED <<codecVars, filterVars, bitSetVars>>

\* ReadString fails with io.EOF: return.
ReadEOF ==
    /\ pc = "read"
    /\ pc' = "eof"
    /\ out' = "Guess: "
    /\ UNCHANGED <<words, target, universe, numPossibilities, line, pureMask>>
    /\ UNCHANGED <<codecVars, filterVars, bitSetVars>>

\* ReadString fails with another error: log.Fatalln("Failed reading input").
ReadFail ==
    /\ pc = "read"
    /\ pc' = "fatal"
    /\ out' = "Failed reading input"
    /\ UNCHANGED <<words, target, universe, numPossibilities, line, pureMask>>
    /\ UNCHANGED <<codecVars, filterVars, bitSetVars>>

\* line == "p": the members are printed, continue.
ListWords ==
    /\ pc = "handle"
    /\ TrimSpace(line) = Str(<<"p">>)
    /\ pc' = "read"
    /\ line' = NoLine
    /\ out' = "list"
    /\ UNCHANGED <<words, target, universe, numPossibilities, pureMask>>
    /\ UNCHANGED <<codecVars, filterVars, bitSetVars>>

\* RejectLine without its continue: the word ParseWord returned with the
\* error goes on to CondenseUniverse.
RejectLineFallsThrough ==
    /\ pc = "handle"
    /\ \E trimmed \in {TrimSpace(line)} :
          /\ trimmed # Str(<<"p">>)
          /\ \E r \in {ParseWord(trimmed)} :
                /\ r.err # "nil"
                /\ \E c \in {CondenseUniverse(r.w, target, universe, words)} :
                      /\ universe' = c.universe
                      /\ numPossibilities' = c.count
                      /\ pc' = IF c.count < 2 THEN "break" ELSE "read"
                /\ out' = r.err
    /\ line' = NoLine
    /\ UNCHANGED <<words, target, pureMask>>
    /\ UNCHANGED <<codecVars, filterVars, bitSetVars>>

\* ParseWord(line) fails: log.Println(err), continue.
RejectLine ==
    /\ pc = "handle"
    /\ \E trimmed \in {TrimSpace(line)} :
          /\ trimmed # Str(<<"p">>)
          /\ \E r \in {ParseWord(trimmed)} :
                /\ r.err # "nil"
                /\ out' = r.err
    /\ pc' = "read"
    /\ line' = NoLine
    /\ UNCHANGED <<words, target, universe, numPossibilities, pureMask>>
    /\ UNCHANGED <<codecVars, filterVars, bitSetVars>>

\* ShouldBreak with 1 for 2.
ShouldBreakWhenNone(count) == count < 1

\* if numPossibilities < 2 { ...; break }
ShouldBreak(count) == count < 2

\* A parsed guess: CondenseUniverse, the prints, break when fewer than 2 remain.
Guess ==
    /\ pc = "handle"
    /\ \E trimmed \in {TrimSpace(line)} :
          /\ trimmed # Str(<<"p">>)
          /\ \E r \in {ParseWord(trimmed)} :
                /\ r.err = "nil"
                /\ \E c \in {CondenseUniverse(r.w, target, universe, words)} :
                      /\ universe' = c.universe
                      /\ numPossibilities' = c.count
                      /\ pc' = IF ShouldBreak(c.count) THEN "break" ELSE "read"
    /\ line' = NoLine
    /\ out' = "possibilities"
    /\ UNCHANGED <<words, target>>
    /\ UNCHANGED <<codecVars, filterVars, bitSetVars>>

ProcessGuess ==
    /\ Guess
    /\ UNCHANGED pureMask

Next ==
    \/ \E raw \in Lines : ReadLine(raw)
    \/ ReadEOF
    \/ ReadFail
    \/ ListWords
    \/ RejectLine
    \/ ProcessGuess

Spec == Init /\ [][Next]_vars

---------------------------------------------------------------------------
(* The game with the Filter-only mask kept beside the condensed one *)

\* The guesses of the runs that keep both masks.
PureLetters == {Ord["A"], Ord["B"]}

PureLines == {w \o Str(<<"LF">>) : w \in [1..WordLen -> PureLetters]}

\* The same guess, with the mask of the variant that only filters:
\* mask = Filter(mask, pattern), no rescan folded back into it.
ProcessGuessBoth ==
    /\ Guess
    /\ pureMask' = Filter(pureMask, ComputePattern(target, ParseWord(TrimSpace(line)).w))

NextBoth ==
    \/ \E raw \in PureLines : ReadLine(raw)
    \/ ReadEOF
    \/ ProcessGuessBoth

SpecBoth == Init /\ [][NextBoth]_vars

---------------------------------------------------------------------------
(* The codec alone: ParseWord on a string, String on the word it returned *)

MaxLen == 6

\* Letters of both cases with the last one, and the characters next to the
\* letters: '@' before 'A', '[' after 'Z', '{' after 'z'.
CodecChars == {Ord["A"], Ord["b"], Ord["z"], Ord["@"], Ord["["], Ord["{"]}

\* Every string of at most MaxLen of these characters.
CodecStrings == UNION {[1..n -> CodecChars] : n \in 0..MaxLen}

GameIdle ==
    /\ words = <<>>
    /\ target = zeroWord
    /\ universe = initialUniverse
    /\ numPossibilities = 0
    /\ pc = "idle"
    /\ line = NoLine
    /\ out = "start"
    /\ pureMask = initialUniverse.bitMask

gameVars == <<words, target, universe, numPossibilities, pc, line, out, pureMask>>

InitCodec ==
    /\ input \in CodecStrings
    /\ parsed = NotParsed
    /\ shown = NotShown
    /\ patternOut = NoPattern
    /\ GameIdle
    /\ FilterIdle
    /\ BitSetIdle

CallParseWord ==
    /\ parsed = NotParsed
    /\ parsed' = ParseWord(input)
    /\ UNCHANGED <<input, shown, patternOut>>
    /\ UNCHANGED <<gameVars, filterVars, bitSetVars>>

CallString ==
    /\ parsed.err = "nil"
    /\ shown = NotShown
    /\ shown' = String(parsed.w)
    /\ UNCHANGED <<input, parsed, patternOut>>
    /\ UNCHANGED <<gameVars, filterVars, bitSetVars>>

NextCodec ==
    \/ CallParseWord
    \/ CallString

SpecCodec == InitCodec /\ [][NextCodec]_vars

---------------------------------------------------------------------------
(* Properties of the codec *)

IsLetter(b) == b \in 65..90 \/ b \in 97..122

AllLetters(s) == \A i \in 1..Len(s) : IsLetter(s[i])

\* strings.ToLower on ASCII bytes.
ToLower(s) == [i \in 1..Len(s) |-> IF s[i] \in 65..90 THEN s[i] + 32 ELSE s[i]]

\* C5: ParseWord fails with ErrWordLen for every string whose length is not
\* 5, with ErrWordChar for every 5-character string holding a character that
\* is no ASCII letter, and succeeds only for 5 letters, with one bit of the 26
\* letter bits at each position.
ParseWordRejectsMalformed ==
    parsed # NotParsed =>
        /\ Len(input) # WordLen => parsed.err = "ErrWordLen"
        /\ (Len(input) = WordLen /\ ~AllLetters(input)) => parsed.err = "ErrWordChar"
        /\ parsed.err = "nil" =>
              /\ Len(input) = WordLen
              /\ AllLetters(input)
              /\ \A i \in 1..WordLen :
                    /\ Cardinality(parsed.w[i]) = 1
                    /\ parsed.w[i] \subseteq allBits

\* C6 as written: String(ParseWord(s)) is s in lower case.
RoundTripLowerCase ==
    (shown # NotShown /\ AllLetters(input)) => shown = ToLower(input)

\* C6: for a string s of 5 letters of either case, String(ParseWord(s)) is s
\* in upper case.
RoundTripUpperCase ==
    (shown # NotShown /\ AllLetters(input)) =>
        shown = [i \in 1..WordLen |->
                    IF input[i] >= 97 THEN input[i] - 32 ELSE input[i]]

\* A string of letters with a lower-case one went through ParseWord and String.
RoundTripWitness ==
    /\ shown # NotShown
    /\ AllLetters(input)
    /\ \E i \in 1..WordLen : input[i] \in 97..122
    /\ \E i \in 1..WordLen : input[i] \in 65..90

---------------------------------------------------------------------------
(* The pattern engine alone: ComputePattern on a target and a parsed guess *)

InitPattern ==
    /\ \E t \in GuessWords : target = ParseWord(t).w
    /\ input \in GuessWords
    /\ parsed = NotParsed
    /\ shown = NotShown
    /\ patternOut = NoPattern
    /\ words = <<>>
    /\ universe = initialUniverse
    /\ numPossibilities = 0
    /\ pc = "idle"
    /\ line = NoLine
    /\ out = "start"
    /\ pureMask = initialUniverse.bitMask
    /\ FilterIdle
    /\ BitSetIdle

CallComputePattern ==
    /\ parsed.err = "nil"
    /\ patternOut = NoPattern
    /\ patternOut' = ComputePattern(target, parsed.w)
    /\ UNCHANGED <<input, parsed, shown>>
    /\ UNCHANGED <<gameVars, filterVars, bitSetVars>>

NextPattern ==
    \/ CallParseWord
    \/ CallComputePattern

SpecPattern == InitPattern /\ [][NextPattern]_vars

---------------------------------------------------------------------------
(* Properties of the pattern engine *)

\* C4: at each position the pattern carries the guessed letter and is
\* Correct when the guess has the target's letter there, otherwise
\* Present-elsewhere when the guessed letter stands anywhere in the target
\* (however many times), otherwise Absent.
PatternAsSpecified ==
    patternOut # NoPattern =>
        \A i \in 1..WordLen :
            /\ patternOut[i].v = parsed.w[i]
            /\ patternOut[i].kind =
                  IF parsed.w[i] = target[i] THEN "G"
                  ELSE IF \E j \in 1..WordLen : target[j] = parsed.w[i] THEN "Y"
                  ELSE "B"

\* A letter the target holds once was guessed twice, away from its place,
\* and both copies are Present-elsewhere; another letter is Absent.
PatternWitness ==
    /\ patternOut # NoPattern
    /\ \E i, j \in 1..WordLen :
          /\ i # j
          /\ parsed.w[i] = parsed.w[j]
          /\ patternOut[i].kind = "Y"
          /\ patternOut[j].kind = "Y"
          /\ Cardinality({k \in 1..WordLen : target[k] = parsed.w[i]}) = 1
    /\ \E i \in 1..WordLen : patternOut[i].kind = "B"
    /\ \E i \in 1..WordLen : patternOut[i].kind = "G"

---------------------------------------------------------------------------
(* Properties of the game *)

\* The dictionary entries the universe u contains.
Members(u) == {k \in 1..Len(words) : Contains(u, words[k])}

\* The letters of a concrete word.
Letters(w) == UNION {w[i] : i \in 1..WordLen}

\* The line in hand after trimming is a guess ParseWord accepts.
LineIsGuess ==
    /\ TrimSpace(line) # Str(<<"p">>)
    /\ ParseWord(TrimSpace(line)).err = "nil"

GuessInHand == ParseWord(TrimSpace(line)).w

TargetInDictionary == \E k \in 1..Len(words) : words[k] = target

\* C1: no step sets a bit of the candidate mask that was clear, and none
\* clears a bit of solutionChars or of eliminatedChars.
UniverseMonotone ==
    [][/\ \A i \in 1..WordLen : universe'.bitMask[i] \subseteq universe.bitMask[i]
       /\ universe.solutionChars \subseteq universe'.solutionChars
       /\ universe.eliminatedChars \subseteq universe'.eliminatedChars]_vars

\* Two or more candidates are left after guesses that cleared mask bits and
\* taught both a required and a forbidden letter.
UniverseMonotoneWitness ==
    /\ pc = "read"
    /\ out = "possibilities"
    /\ universe.bitMask # initialUniverse.bitMask
    /\ universe.solutionChars # {}
    /\ universe.eliminatedChars # {}

\* C2: the dictionary entries the universe contains after a step were all
\* contained before it, and the count does not grow.
MembersOnlyShrink ==
    [][/\ Members(universe') \subseteq Members(universe)
       /\ numPossibilities' <= numPossibilities]_vars

\* A guess removed some entries and left two or more.
MembersOnlyShrinkWitness ==
    /\ pc = "read"
    /\ out = "possibilities"
    /\ numPossibilities >= 2
    /\ numPossibilities < Len(words)
    /\ Cardinality(Members(universe)) = numPossibilities

\* C3: Contains(w) holds exactly when w fits the mask position by position,
\* holds every required letter and holds no forbidden one; and the count a
\* guess returns is the number of dictionary entries that pass this test.
ContainsAsSpecified ==
    LET Fits(w) ==
            /\ \A i \in 1..WordLen : w[i] \subseteq universe.bitMask[i]
            /\ universe.solutionChars \subseteq Letters(w)
            /\ Letters(w) \cap universe.eliminatedChars = {}
    IN  /\ \A k \in 1..Len(words) : Contains(universe, words[k]) <=> Fits(words[k])
        /\ Contains(universe, target) <=> Fits(target)
        /\ out = "possibilities" =>
              numPossibilities = Cardinality({k \in 1..Len(words) : Fits(words[k])})

\* After a guess the universe contains some entries and not others, one of
\* the others fitting the mask but lacking a required letter.
ContainsWitness ==
    /\ out = "possibilities"
    /\ numPossibilities >= 1
    /\ \E k \in 1..Len(words) :
          /\ ~Contains(universe, words[k])
          /\ Match(universe.bitMask, words[k])

\* C7: a line that is the listing command, or that ParseWord rejects, leaves
\* the universe and the count as they were, and the loop reads again.
RejectedLineChangesNothing ==
    [][(pc = "handle" /\ ~LineIsGuess) =>
          /\ universe' = universe
          /\ numPossibilities' = numPossibilities
          /\ pc' = "read"]_vars

\* A line was rejected after a guess had narrowed the universe.
RejectedLineWitness ==
    /\ pc = "read"
    /\ out \in {"ErrWordLen", "ErrWordChar"}
    /\ universe # initialUniverse

\* What C8 says of a step of the loop, given the ways a read may end it.
LoopStep(readEnds) ==
    /\ pc \notin {"eof", "fatal", "break"}
    /\ pc = "read" => pc' \in {"handle"} \cup readEnds
    /\ pc = "handle" =>
          /\ pc' \in {"read", "break"}
          /\ pc' = "break" <=> (LineIsGuess /\ numPossibilities' < 2)

TargetGuessLeavesTarget ==
    [][(pc = "handle" /\ LineIsGuess /\ GuessInHand = target /\ TargetInDictionary) =>
          /\ \A i \in 1..WordLen :
                ComputePattern(target, GuessInHand)[i].kind = PatternKindG
          /\ numPossibilities' = 1
          /\ \A k \in 1..Len(words) :
                Contains(universe', words[k]) <=> words[k] = target]_vars

\* The loop stopped on the target alone, every letter of it required, after
\* a guess before had taught a forbidden letter.
TargetGuessWitness ==
    /\ pc = "break"
    /\ TargetInDictionary
    /\ numPossibilities = 1
    /\ universe.bitMask = target
    /\ universe.solutionChars = Letters(target)
    /\ universe.eliminatedChars # {}

\* C9: the universe with the Filter-only mask contains the same dictionary
\* entries as the universe with the condensed mask, and as many as the count.
FilterOnlyEquivalent ==
    LET pure == [universe EXCEPT !.bitMask = pureMask]
    IN  /\ Members(pure) = Members(universe)
        /\ out = "possibilities" => Cardinality(Members(pure)) = numPossibilities

\* The two masks differ at a position, candidates are left, and the target
\* is not in the dictionary.
FilterOnlyWitness ==
    /\ out = "possibilities"
    /\ pc = "read"
    /\ pureMask # universe.bitMask
    /\ ~TargetInDictionary
    /\ numPossibilities >= 2

---------------------------------------------------------------------------
(* A guess that shares no letter with the target *)

\* The guess in hand and the target have no letter in common.
GuessMissesTarget ==
    /\ pc = "handle"
    /\ LineIsGuess
    /\ Letters(GuessInHand) # {}
    /\ Letters(GuessInHand) \cap Letters(target) = {}

\* C11: when the guess shares no letter with the target, every entry of the
\* pattern is B, the guessed letters and no others join eliminatedChars,
\* solutionChars stays, and the words the new universe contains are the
\* words the old one contained that hold no guessed letter; the count is
\* their number, the old count when no contained word holds a guessed letter.
AllAbsentGuess ==
    [][GuessMissesTarget =>
         LET g == GuessInHand
             keep == {k \in Members(universe) : Letters(words[k]) \cap Letters(g) = {}}
         IN  /\ \A i \in 1..WordLen :
                    ComputePattern(target, g)[i] = [v |-> g[i], kind |-> PatternKindB]
             /\ universe'.eliminatedChars = universe.eliminatedChars \cup Letters(g)
             /\ universe'.solutionChars = universe.solutionChars
             /\ Members(universe') = keep
             /\ numPossibilities' = Cardinality(keep)
             /\ (keep = Members(universe) => numPossibilities' = numPossibilities)]_vars

\* Only letters the target lacks were guessed so far, and they removed some
\* of the words but not all.
AllAbsentGuessWitness ==
    /\ out = "possibilities"
    /\ universe.solutionChars = {}
    /\ universe.eliminatedChars # {}
    /\ numPossibilities >= 1
    /\ numPossibilities < Len(words)

---------------------------------------------------------------------------
(* Filter alone: one call on a mask and a pattern *)

\* The letters A and B as pattern letters.
FilterLetters == {Shl1(0), Shl1(1)}

PatternEntries == [v : FilterLetters, kind : {PatternKindB, PatternKindY, PatternKindG}]

\* Every WordlePattern over these entries, those ComputePattern never
\* returns included.
FilterPatterns == [1..WordLen -> PatternEntries]

\* A mask with positions of every size, the full one of the initial mask
\* included.
WideMask == <<allBits, allBits \ Shl1(0), Shl1(1), Shl1(0) \cup Shl1(1), {}>>

\* The mask whose every position is already the one letter of the pattern's
\* entry there.
PinnedMask(pattern) == [i \in 1..WordLen |-> pattern[i].v]

InitFilter ==
    /\ patternIn \in FilterPatterns
    /\ maskIn \in {WideMask, PinnedMask(patternIn)}
    /\ filterOut = NotFiltered
    /\ GameIdle
    /\ CodecIdle
    /\ BitSetIdle

CallFilter ==
    /\ filterOut = NotFiltered
    /\ filterOut' = Filter(maskIn, patternIn)
    /\ UNCHANGED <<maskIn, patternIn>>
    /\ UNCHANGED <<gameVars, codecVars, bitSetVars>>

NextFilter == CallFilter

SpecFilter == InitFilter /\ [][NextFilter]_vars

\* The orders in which the WordLen entries of a pattern can be taken.
Orders == {p \in [1..WordLen -> 1..WordLen] : \A i, j \in 1..WordLen : p[i] = p[j] => i = j}

\* The body of Filter's loop run on the entries in the order p, from the
\* n-th of them on.
RECURSIVE ApplyInOrder(_, _, _, _)
ApplyInOrder(w, pattern, p, n) ==
    IF n > WordLen THEN w
    ELSE ApplyInOrder(FilterEntry(w, p[n], pattern[p[n]]), pattern, p, n + 1)

\* Some letter is B at one position of the pattern and G at another.
AbsentAndCorrect(pattern) ==
    \E i, j \in 1..WordLen :
        /\ pattern[i].kind = PatternKindB
        /\ pattern[j].kind = PatternKindG
        /\ pattern[i].v = pattern[j].v

\* C12 as stated: whatever the pattern, every order of its entries gives
\* the mask Filter returns.
FilterOrderFree ==
    filterOut # NotFiltered =>
        \A p \in Orders : ApplyInOrder(maskIn, patternIn, p, 1) = filterOut

\* C12: for a pattern in which no letter is B at one position and G at
\* another, every order of its entries gives the mask Filter returns.
FilterOrderFreeWithoutClash ==
    (filterOut # NotFiltered /\ ~AbsentAndCorrect(patternIn)) =>
        \A p \in Orders : ApplyInOrder(maskIn, patternIn, p, 1) = filterOut

\* Filter ran on a pattern with all three kinds, one letter G at one position
\* and Y at another, and changed the mask.
FilterOrderWitness ==
    /\ filterOut # NotFiltered
    /\ filterOut # maskIn
    /\ ~AbsentAndCorrect(patternIn)
    /\ \A kd \in {PatternKindB, PatternKindY, PatternKindG} :
           \E i \in 1..WordLen : patternIn[i].kind = kd
    /\ \E i, j \in 1..WordLen :
           /\ patternIn[i].kind = PatternKindG
           /\ patternIn[j].kind = PatternKindY
           /\ patternIn[i].v = patternIn[j].v

\* Every entry of the pattern is G and the mask is already pinned to it.
AllCorrectOnPinned ==
    \A i \in 1..WordLen :
        /\ patternIn[i].kind = PatternKindG
        /\ maskIn[i] = patternIn[i].v

\* C14: a G entry for a letter at a position of the mask that is already
\* exactly that letter gives the mask back, and so does Filter on a pattern
\* of G entries only when every position is already its letter.
CorrectOnPinnedIsNoOp ==
    filterOut # NotFiltered =>
        /\ \A i \in 1..WordLen :
               (patternIn[i].kind = PatternKindG /\ maskIn[i] = patternIn[i].v)
                   => FilterEntry(maskIn, i, patternIn[i]) = maskIn
        /\ AllCorrectOnPinned => filterOut = maskIn

\* Filter ran on an all-G pattern of both letters over the mask pinned to it.
CorrectOnPinnedWitness ==
    /\ filterOut # NotFiltered
    /\ AllCorrectOnPinned
    /\ filterOut = maskIn
    /\ \E i, j \in 1..WordLen : patternIn[i].v # patternIn[j].v

---------------------------------------------------------------------------
(* The mask CondenseUniverse stores *)

\* Filter applied to the mask of the universe, for the guess in hand.
FilteredMask == Filter(universe.bitMask, ComputePattern(target, GuessInHand))

\* C13 as stated: the mask a processed guess leaves is Filter of the mask
\* before it.
StoredMaskIsFiltered ==
    [][(pc = "handle" /\ LineIsGuess) => universe'.bitMask = FilteredMask]_vars

\* C13: the mask a processed guess leaves is, at each position, the letters
\* that the dictionary words passing Filter of the mask before it (and the
\* two letter sets) hold there; it lies within the filtered mask.
StoredMaskIsCondensed ==
    [][(pc = "handle" /\ LineIsGuess) =>
         \A f \in {FilteredMask} :
             \A kept \in {{k \in 1..Len(words) :
                              Contains([bitMask |-> f,
                                        solutionChars |-> universe'.solutionChars,
                                        eliminatedChars |-> universe'.eliminatedChars],
                                       words[k])}} :
                 \A i \in 1..WordLen :
                     /\ universe'.bitMask[i] = UNION {words[k][i] : k \in kept}
                     /\ universe'.bitMask[i] \subseteq f[i]]_vars

\* After a guess that left two or more words the mask holds Z nowhere
\* although Z was never guessed: no entry of a pattern cleared it.
StoredMaskWitness ==
    /\ out = "possibilities"
    /\ numPossibilities >= 2
    /\ 25 \notin universe.eliminatedChars
    /\ \A i \in 1..WordLen : 25 \notin universe.bitMask[i]

---------------------------------------------------------------------------
(* The target among the candidates *)

\* C15: when the target is a word of the dictionary, the universe contains
\* it in every reachable state and numPossibilities is at least 1; so
\* numPossibilities is 0 only when the dictionary lacks the target.
TargetNeverEliminated ==
    /\ TargetInDictionary => (Contains(universe, target) /\ numPossibilities >= 1)
    /\ numPossibilities = 0 => ~TargetInDictionary

\* The game ended on the target alone after guesses that were not all the
\* target: a letter was found absent and every letter of the target is known.
TargetNeverEliminatedWitness ==
    /\ TargetInDictionary
    /\ pc = "break"
    /\ numPossibilities = 1
    /\ Contains(universe, target)
    /\ universe.eliminatedChars # {}
    /\ universe.solutionChars = Letters(target)
    /\ Cardinality(Letters(target)) >= 2

---------------------------------------------------------------------------
(* Patterns of ComputePattern and the global elimination of Filter *)

\* C16: in a pattern ComputePattern returned, a letter that is B at one
\* position is B wherever the guess holds it; so Filter of the initial mask
\* by that pattern leaves every G position its letter and every Y letter
\* allowed at some position.
AbsentLetterAbsentThroughout ==
    patternOut # NoPattern =>
        /\ \A i, j \in 1..WordLen :
               (patternOut[i].kind = PatternKindB /\ patternOut[j].v = patternOut[i].v)
                   => patternOut[j].kind = PatternKindB
        /\ ~AbsentAndCorrect(patternOut)
        /\ \A f \in {Filter(initialUniverse.bitMask, patternOut)} :
               \A j \in 1..WordLen :
                   /\ patternOut[j].kind = PatternKindG => f[j] = patternOut[j].v
                   /\ patternOut[j].kind = PatternKindY =>
                          \E i \in 1..WordLen : patternOut[j].v \subseteq f[i]

\* A pattern with a letter B at two positions, and another letter G at one
\* position and Y at another.
AbsentLetterWitness ==
    /\ patternOut # NoPattern
    /\ \E i, j \in 1..WordLen :
           /\ i # j
           /\ patternOut[i].kind = PatternKindB
           /\ patternOut[j].kind = PatternKindB
           /\ patternOut[i].v = patternOut[j].v
    /\ \E i, j \in 1..WordLen :
           /\ patternOut[i].kind = PatternKindG
           /\ patternOut[j].kind = PatternKindY
           /\ patternOut[i].v = patternOut[j].v

---------------------------------------------------------------------------
(* The two letter sets, a repeated guess, the count *)

\* C17: solutionChars lies within the letters of the target and
\* eliminatedChars holds none of them; the two sets are disjoint.
LetterSetsFollowTarget ==
    /\ universe.solutionChars \subseteq Letters(target)
    /\ universe.eliminatedChars \cap Letters(target) = {}
    /\ universe.solutionChars \cap universe.eliminatedChars = {}

\* Guesses taught two letters of the target and two letters it lacks, and
\* left two or more words.
LetterSetsWitness ==
    /\ out = "possibilities"
    /\ Cardinality(universe.solutionChars) >= 2
    /\ Cardinality(universe.eliminatedChars) >= 2
    /\ numPossibilities >= 2

\* C18: for the guess in hand, CondenseUniverse applied to the universe it
\* returned (same guess, target and dictionary) returns that universe and
\* that count again.
SameGuessTwice ==
    (pc = "handle" /\ LineIsGuess) =>
        \A first \in {CondenseUniverse(GuessInHand, target, universe, words)} :
            CondenseUniverse(GuessInHand, target, first.universe, words) = first

\* The guess in hand was processed before: the universe is no longer the
\* initial one, both letter sets are known, and processing the guess returns
\* the universe and the count in hand.
SameGuessTwiceWitness ==
    /\ pc = "handle"
    /\ LineIsGuess
    /\ universe.solutionChars # {}
    /\ universe.eliminatedChars # {}
    /\ numPossibilities >= 2
    /\ CondenseUniverse(GuessInHand, target, universe, words)
           = [universe |-> universe, count |-> numPossibilities]

\* C19: a processed guess leaves as mask the position-wise OR of the words
\* it counted, numPossibilities their number, and a universe that contains
\* exactly those words.
CountMatchesUniverse ==
    [][(pc = "handle" /\ LineIsGuess) =>
         \A n \in {Narrowed(GuessInHand, target, universe)} :
             \A counted \in {{k \in 1..Len(words) : Contains(n, words[k])}} :
                 /\ universe'.bitMask =
                        [i \in 1..WordLen |-> UNION {words[k][i] : k \in counted}]
                 /\ numPossibilities' = Cardinality(counted)
                 /\ Members(universe') = counted
                 /\ counted = {} => universe'.bitMask = zeroWord]_vars

\* A guess left no word of a dictionary that has words: the mask is all
\* zero and the universe contains nothing.
CountMatchesUniverseWitness ==
    /\ out = "possibilities"
    /\ Len(words) > 0
    /\ numPossibilities = 0
    /\ universe.bitMask = zeroWord
    /\ Members(universe) = {}

---------------------------------------------------------------------------
(* BitSet *)

\* The width of an element of bits, a uint64: a set of positions 0..63.
WordBits == 64

\* The argument of NewBitSet.
NewBitSetSize == 70

\* NewBitSet(n): (n+63)/64 zero words, size 0.
NewBitSet(n) == [bits |-> [a \in 1..((n + 63) \div WordBits) |-> {}], size |-> 0]

\* s.Reset()
BitSetReset(s) == [bits |-> [a \in 1..Len(s.bits) |-> {}], size |-> 0]

\* s.Size()
BitSetSize(s) == s.size

\* s.Contains(i): bits[i/64] & (1 << (i%64)) != 0
BitSetContains(s, i) == (i % WordBits) \in s.bits[(i \div WordBits) + 1]

\* s.Insert(i)
BitSetInsert(s, i) ==
    LET a == (i \div WordBits) + 1
        mask == {i % WordBits}
        diff == (s.bits[a] \cap mask) = {}
    IN  [bits |-> [s.bits EXCEPT ![a] = @ \cup mask],
         size |-> IF diff THEN s.size + 1 ELSE s.size,
         value |-> diff]

\* Remove with size-- outside the if.
BitSetRemoveAlwaysCounts(s, i) ==
    LET a == (i \div WordBits) + 1
        mask == {i % WordBits}
        diff == (s.bits[a] \cap mask) # {}
    IN  [bits |-> [s.bits EXCEPT ![a] = @ \ mask],
         size |-> s.size - 1,
         value |-> diff]

\* s.Remove(i)
BitSetRemove(s, i) ==
    LET a == (i \div WordBits) + 1
        mask == {i % WordBits}
        diff == (s.bits[a] \cap mask) # {}
    IN  [bits |-> [s.bits EXCEPT ![a] = @ \ mask],
         size |-> IF diff THEN s.size - 1 ELSE s.size,
         value |-> diff]

\* s.Set(i, b): the two branches are written out in the source.
BitSetSet(s, i, b) ==
    LET a == (i \div WordBits) + 1
        mask == {i % WordBits}
    IN  IF b
        THEN LET diff == (s.bits[a] \cap mask) = {}
             IN  [bits |-> [s.bits EXCEPT ![a] = @ \cup mask],
                  size |-> IF diff THEN s.size + 1 ELSE s.size,
                  value |-> diff]
        ELSE LET diff == (s.bits[a] \cap mask) # {}
             IN  [bits |-> [s.bits EXCEPT ![a] = @ \ mask],
                  size |-> IF diff THEN s.size - 1 ELSE s.size,
                  value |-> diff]

\* Indices at both ends of each word of bits and next to them.
TestIndices == {0, 1, WordBits - 1, WordBits, WordBits + 1, NewBitSetSize - 1}

\* The BitSet in the variables.
TheBitSet == [bits |-> bits, size |-> size]

InitBitSet ==
    /\ bits = NewBitSet(NewBitSetSize).bits
    /\ size = NewBitSet(NewBitSetSize).size
    /\ ret = [op |-> "NewBitSet", i |-> 0, b |-> FALSE, value |-> FALSE]
    /\ GameIdle
    /\ CodecIdle
    /\ FilterIdle

CallSet(i, b) ==
    /\ \E r \in {BitSetSet(TheBitSet, i, b)} :
          /\ bits' = r.bits
          /\ size' = r.size
          /\ ret' = [op |-> "Set", i |-> i, b |-> b, value |-> r.value]
    /\ UNCHANGED <<gameVars, codecVars, filterVars>>

CallInsert(i) ==
    /\ \E r \in {BitSetInsert(TheBitSet, i)} :
          /\ bits' = r.bits
          /\ size' = r.size
          /\ ret' = [op |-> "Insert", i |-> i, b |-> TRUE, value |-> r.value]
    /\ UNCHANGED <<gameVars, codecVars, filterVars>>

CallRemove(i) ==
    /\ \E r \in {BitSetRemove(TheBitSet, i)} :
          /\ bits' = r.bits
          /\ size' = r.size
          /\ ret' = [op |-> "Remove", i |-> i, b |-> FALSE, value |-> r.value]
    /\ UNCHANGED <<gameVars, codecVars, filterVars>>

CallReset ==
    /\ bits' = BitSetReset(TheBitSet).bits
    /\ size' = BitSetReset(TheBitSet).size
    /\ ret' = [op |-> "Reset", i |-> 0, b |-> FALSE, value |-> FALSE]
    /\ UNCHANGED <<gameVars, codecVars, filterVars>>

NextBitSet ==
    \/ \E i \in TestIndices, b \in BOOLEAN : CallSet(i, b)
    \/ \E i \in TestIndices : CallInsert(i)
    \/ \E i \in TestIndices : CallRemove(i)
    \/ CallReset

SpecBitSet == InitBitSet /\ [][NextBitSet]_vars

\* The indices the words of bits have a bit for.
InRange == 0..(WordBits * Len(bits) - 1)

\* Size() is the number of indices Contains accepts, and on each index
\* Set(i, true) gives what Insert(i) gives, Set(i, false) what Remove(i) gives.
BitSetCounts ==
    /\ BitSetSize(TheBitSet) = Cardinality({i \in InRange : BitSetContains(TheBitSet, i)})
    /\ \A i \in TestIndices :
           /\ BitSetSet(TheBitSet, i, TRUE) = BitSetInsert(TheBitSet, i)
           /\ BitSetSet(TheBitSet, i, FALSE) = BitSetRemove(TheBitSet, i)

\* A call of Set, Insert or Remove returned true exactly when Contains of
\* its index changed, left Contains of every other index alone, and left
\* its index contained exactly when it was Insert or Set(i, true).
BitSetReturns ==
    ret'.op \in {"Set", "Insert", "Remove"} =>
        LET after == [bits |-> bits', size |-> size']
        IN  /\ ret'.value = (BitSetContains(TheBitSet, ret'.i) # BitSetContains(after, ret'.i))
            /\ BitSetContains(after, ret'.i) = ret'.b
            /\ \A j \in InRange \ {ret'.i} :
                   BitSetContains(after, j) = BitSetContains(TheBitSet, j)

\* C20: in every state of a BitSet Size() is the number of indices it
\* contains and Set agrees with Insert and Remove; every call of Set, Insert
\* or Remove returns true exactly when it changed whether its index is
\* contained.
BitSetSound == []BitSetCounts /\ [][BitSetReturns]_vars

\* Indices of both words are contained, and the last call was a Set(i, false)
\* that took one out.
BitSetWitness ==
    /\ ret = [op |-> "Set", i |-> WordBits, b |-> FALSE, value |-> TRUE]
    /\ size >= 2
    /\ BitSetContains(TheBitSet, WordBits - 1)
    /\ BitSetContains(TheBitSet, NewBitSetSize - 1)

=============================================================================
